---- MODULE Spec2Model ----
(***************************************************************************)
(* A model of the Telegram master channel's error callback                 *)
(* (TelegramChannel.error) and of the chat-association store it migrates.  *)
(*                                                                         *)
(* The callback runs on the threads of the bot library: the dispatcher and *)
(* its workers (errors raised while an update is processed) and the        *)
(* updater (polling errors, delivered with update = None).  Each access of *)
(* shared state                                                            *)
(* (self.timeout_count, the association database) and each outbound send  *)
(* is one step of the thread that runs the callback.                       *)
(*                                                                         *)
(* db.py, bot_manager.py, chat_binding.py and utils.py are not part of the *)
(* sources at hand: the store operations, the gateway send, the link       *)
(* command and the identifier encoding follow the specification's          *)
(* contracts (sections 3, 4.1, 4.2, 6).                                    *)
(***************************************************************************)
EXTENDS Integers, Sequences, FiniteSets, TLC

\* ------------------------------------------------------------------ bounds
\* Master conversations and slave chats that exist.
NumMasters == 2
NumSlaves == 2
\* Network errors per run and the configured alert interval, where only
\* network errors are delivered ...
MaxNetErrors == 5
MaxInterval == 5
\* ... and where every kind of failure is.
MixedNetErrors == 2
MixedInterval == 1

\* ------------------------------------------------------------ identifiers
\* self.config['admins'][0]: the chat the operator alerts go to.
Admin == 0

\* Telegram chat identifiers of master conversations.
ChatIds == 1 .. NumMasters

\* The threads on which the library invokes the error callback.
Threads == {"t1", "t2"}

MasterChannel == "telegram"

SlaveChannel(i) == IF i % 2 = 1 THEN "wechat" ELSE "line"

\* etm_utils.chat_id_to_str: "{originSystem}#{conversationId}", a key that
\* determines both of its fields.
chat_id_to_str(channel, id) == <<channel, id>>

MasterRefs == {chat_id_to_str(MasterChannel, c) : c \in ChatIds}

SlaveRefs == {chat_id_to_str(SlaveChannel(i), i) : i \in 1 .. NumSlaves}

NoSlave == <<"", 0>>

\* etm_utils.chat_id_str_to_id: the key split into its two fields again.
chat_id_str_to_id(key) == [channel_id |-> key[1], chat_id |-> key[2]]

\* The slave channels a deployment can have registered (coordinator.slaves).
SlaveChannels == {SlaveChannel(i) : i \in 1 .. NumSlaves}

\* -------------------------------------------------------- association store
\* One row per association; rows are durable.
Row(master, slave) == [master |-> master, slave |-> slave]

\* db.get_chat_assoc(master_uid=...): the slave refs bound to a master.
FindByMaster(st, master) == {r.slave : r \in {x \in st : x.master = master}}

\* db.get_chat_assoc(slave_uid=...): the master a slave is bound to, if any.
FindBySlave(st, slave) == {r.master : r \in {x \in st : x.slave = slave}}

\* db.remove_chat_assoc(slave_uid=...): no-op when absent.
remove_chat_assoc(st, slave) == {r \in st : r.slave # slave}

\* Put fails with ConstraintViolation if the slave ref is already bound to a
\* different master ref.
ConstraintViolationNever(st, master, slave) == FALSE

ConstraintViolation(st, master, slave) ==
    \E r \in st : r.slave = slave /\ r.master # master

\* db.add_chat_assoc(master_uid=..., slave_uid=...)
add_chat_assoc(st, master, slave) == st \cup {Row(master, slave)}

\* The stores the link command can build: no slave ref in two rows.
UniqueSlaves(st) == \A r1, r2 \in st : r1.slave = r2.slave => r1 = r2

\* ------------------------------------------------------------ raw failures
ErrClasses ==
    {"Unauthorized", "BadRequest", "TimedOut", "NetworkError", "ChatMigrated",
     "TelegramError"}

\* telegram.error: BadRequest and TimedOut derive from NetworkError.
IsInstance(cls, base) ==
    \/ cls = base
    \/ base = "NetworkError" /\ cls \in {"BadRequest", "TimedOut"}

\* The dispatch of error(): the text test first, then the except clauses in
\* the order they are written.
ClassifyTextLast(err) ==
    IF IsInstance(err.cls, "Unauthorized") THEN "Unauthorized"
    ELSE IF IsInstance(err.cls, "BadRequest") THEN "InvalidRequest"
    ELSE IF IsInstance(err.cls, "TimedOut") \/ IsInstance(err.cls, "NetworkError")
         THEN "NetworkTransient"
    ELSE IF IsInstance(err.cls, "ChatMigrated") THEN "ConversationMigrated"
    ELSE IF err.conflict THEN "PollingConflict"
    ELSE "Unclassified"

ClassifyNetFirst(err) ==
    IF err.conflict THEN "PollingConflict"
    ELSE IF IsInstance(err.cls, "Unauthorized") THEN "Unauthorized"
    ELSE IF IsInstance(err.cls, "TimedOut") \/ IsInstance(err.cls, "NetworkError")
         THEN "NetworkTransient"
    ELSE IF IsInstance(err.cls, "BadRequest") THEN "InvalidRequest"
    ELSE IF IsInstance(err.cls, "ChatMigrated") THEN "ConversationMigrated"
    ELSE "Unclassified"

Classify(err) ==
    IF err.conflict THEN "PollingConflict"
    ELSE IF IsInstance(err.cls, "Unauthorized") THEN "Unauthorized"
    ELSE IF IsInstance(err.cls, "BadRequest") THEN "InvalidRequest"
    ELSE IF IsInstance(err.cls, "TimedOut") \/ IsInstance(err.cls, "NetworkError")
         THEN "NetworkTransient"
    ELSE IF IsInstance(err.cls, "ChatMigrated") THEN "ConversationMigrated"
    ELSE "Unclassified"

\* ------------------------------------------------------------------- state
VARIABLES
    store,          \* the persisted association rows
    timeout_count,  \* TelegramChannel.timeout_count
    alertInterval,  \* self.flag('network_error_prompt_interval')
    th,             \* per thread: the callback's position, locals and effects
    prev,           \* history: the migration handled just before
    netHandled,     \* history: network errors handled since startup
    netAlerts,      \* history: network alerts delivered since startup
    netSendFailed,  \* history: a send failed while handling a network error
    crashed         \* history: the migration the last crash interrupted

vars ==
    <<store, timeout_count, alertInterval, th, prev, netHandled, netAlerts,
      netSendFailed, crashed>>

\* A thread outside the callback, and the shape of an invocation's record:
\* the raw failure (cls, conflict), its category, the update (upd, chat), the
\* locals of the branches (orig: what get_chat_assoc returned to the
\* migration loop), what the invocation sent and logged, and the branches of
\* the callback it entered (ran).  For the info command: the registered
\* slave channels, the chats get_chat_from_db resolves, and the lines of the
\* answer.
Idle ==
    [pc |-> "idle", cls |-> "none", conflict |-> FALSE, cat |-> "none",
     upd |-> "none", chat |-> 0, new |-> 0,
     links |-> {}, cur |-> NoSlave, count |-> 0, tmp |-> 0,
     orig |-> {}, sends |-> <<>>, logs |-> <<>>, ran |-> <<>>,
     checked |-> FALSE, outcome |-> "none",
     slaves |-> {}, known |-> {}, entries |-> {}]

NoMigration ==
    [valid |-> FALSE, chat |-> 0, new |-> 0, orig |-> {}, count |-> 0, said |-> 0]

InitWith(intervals) ==
    /\ store = {}
    /\ timeout_count = 0
    /\ alertInterval \in intervals
    /\ th = [t \in Threads |-> Idle]
    /\ prev = NoMigration
    /\ netHandled = 0
    /\ netAlerts = 0
    /\ netSendFailed = FALSE
    /\ crashed = NoMigration

\* ----------------------------------------------------------------- helpers
Serial == \A u \in Threads : th[u].pc = "idle"

\* Network handlings that have not yet stored their increment.
Pending ==
    Cardinality({u \in Threads : th[u].pc \in {"NetworkTransient", "net_write"}})

\* A send through the gateway or the bot: it is delivered (ok) or it raises.
Sent(r, to, kind, n, ok) ==
    [r EXCEPT !.sends = Append(@, [to |-> to, kind |-> kind, n |-> n, ok |-> ok])]

Logged(r, record) == [r EXCEPT !.logs = Append(@, record)]

\* Control enters a branch of the callback.
Entered(r, branch) == [r EXCEPT !.ran = Append(@, branch)]

OutcomeOf(ok) == IF ok THEN "ok" ELSE "raised"

\* The callback returns (outcome "ok") or an exception leaves it ("raised").
Finish(t, r, outcome) ==
    th' = [th EXCEPT ![t] =
             [r EXCEPT !.pc = "done", !.outcome = outcome, !.links = {},
                       !.cur = NoSlave]]

\* old_id = update.message.chat_id, as the key of the store.
old_master(r) == chat_id_to_str(MasterChannel, r.chat)

\* new_id = e.new_chat_id, as the key of the store.
new_master_stays(r) == chat_id_to_str(MasterChannel, r.chat)

new_master(r) == chat_id_to_str(MasterChannel, r.new)

\* bot.send_message(new_id, ...): where the confirmation goes.
confirm_target_old(r) == r.chat

confirm_target(r) == r.new

SameMigration(m, chat, new) == m.valid /\ m.chat = chat /\ m.new = new

\* count += 1
NextCountStuck(c) == c

NextCount(c) == c + 1

\* timeout_interval > 0 and self.timeout_count % timeout_interval == 0
AlertDueOffByOne(count, interval) ==
    interval > 0 /\ (count + 1) % interval = 0

AlertDue(count, interval) == interval > 0 /\ count % interval = 0

\* Line 267 again: `and` evaluates the modulo only if the interval is
\* positive; a modulo by zero is a ZeroDivisionError.
ModuloEvaluatedAlways(interval) == TRUE

ModuloEvaluated(interval) == interval > 0

ZeroDivision(interval) == ModuloEvaluated(interval) /\ interval = 0

\* The try/except around the alert of the catch-all branch.
UnclassifiedOutcomeUnguarded(ok) == OutcomeOf(ok)

UnclassifiedOutcome(ok) == "ok"

\* ----------------------------------------------------------------- actions
\* The library invokes error(bot, update, error) on thread t, with a failure
\* of one of `classes`; `cap` bounds the network errors of a run.  The new
\* identifier of a migrated conversation differs from the old one, no two
\* invocations for the same conversation run at once, and the text of a
\* TimedOut or ChatMigrated error is the library's own (it never holds the
\* conflict text; the text of the other classes comes from the server).
Begin(t, classes, cap) ==
    /\ th[t].pc = "idle"
    /\ \E upd \in {"none", "nomsg", "msg"}, chat \in ChatIds \cup {0},
          cls \in classes, conflict \in BOOLEAN, new \in ChatIds \cup {0} :
        /\ (upd = "msg") <=> (chat # 0)
        /\ (cls = "ChatMigrated") <=> (new # 0)
        /\ new # chat
        /\ conflict => cls \notin {"TimedOut", "ChatMigrated"}
        /\ chat # 0 => \A u \in Threads \ {t} : th[u].chat # chat
        /\ LET cat == Classify([cls |-> cls, conflict |-> conflict])
               again == cat = "ConversationMigrated" /\ upd = "msg"
           IN  /\ cat = "NetworkTransient" => timeout_count + Pending < cap
               /\ th' = [th EXCEPT ![t] =
                           [Idle EXCEPT !.pc = cat, !.cls = cls,
                                        !.conflict = conflict, !.cat = cat,
                                        !.upd = upd, !.chat = chat, !.new = new,
                                        !.outcome = "running"]]
               /\ prev' = IF again /\ SameMigration(prev, chat, new)
                          THEN prev ELSE NoMigration
               /\ crashed' = IF again /\ SameMigration(crashed, chat, new)
                             THEN crashed ELSE NoMigration
    /\ UNCHANGED <<store, timeout_count, alertInterval, netHandled, netAlerts,
                   netSendFailed>>

\* Lines 241-246.
HandleConflictNoReturn(t) ==
    /\ th[t].pc = "PollingConflict"
    /\ \E ok \in BOOLEAN :
        LET r == Sent(Logged(Entered(th[t], "PollingConflict"), "critical:conflict"),
                      Admin, "conflict", 0, ok)
        IN  IF ok
            THEN th' = [th EXCEPT ![t] =
                          [r EXCEPT !.pc = Classify([cls |-> th[t].cls,
                                                     conflict |-> FALSE])]]
            ELSE Finish(t, r, "raised")
    /\ UNCHANGED <<store, timeout_count, alertInterval, prev, netHandled,
                   netAlerts, netSendFailed, crashed>>

HandleConflict(t) ==
    /\ th[t].pc = "PollingConflict"
    /\ \E ok \in BOOLEAN :
        Finish(t, Sent(Logged(Entered(th[t], "PollingConflict"), "critical:conflict"),
                       Admin, "conflict", 0, ok),
               OutcomeOf(ok))
    /\ UNCHANGED <<store, timeout_count, alertInterval, prev, netHandled,
                   netAlerts, netSendFailed, crashed>>

\* Lines 249-250.
HandleUnauthorizedNotifies(t) ==
    /\ th[t].pc = "Unauthorized"
    /\ \E ok \in BOOLEAN :
        Finish(t, Sent(Logged(Entered(th[t], "Unauthorized"), "error:unauthorised"),
                       th[t].chat, "dropped", 0, ok),
               OutcomeOf(ok))
    /\ UNCHANGED <<store, timeout_count, alertInterval, prev, netHandled,
                   netAlerts, netSendFailed, crashed>>

HandleUnauthorized(t) ==
    /\ th[t].pc = "Unauthorized"
    /\ Finish(t, Logged(Entered(th[t], "Unauthorized"), "error:unauthorised"), "ok")
    /\ UNCHANGED <<store, timeout_count, alertInterval, prev, netHandled,
                   netAlerts, netSendFailed, crashed>>

\* Lines 251-255.
HandleBadRequestUnlinks(t) ==
    /\ th[t].pc = "InvalidRequest"
    /\ \E ok \in BOOLEAN :
        Finish(t, Sent(Logged(Entered(th[t], "InvalidRequest"), "error:invalid"),
                       Admin, "invalid", 0, ok),
               OutcomeOf(ok))
    /\ store' = {r \in store : r.master # old_master(th[t])}
    /\ UNCHANGED <<timeout_count, alertInterval, prev, netHandled,
                   netAlerts, netSendFailed, crashed>>

HandleBadRequest(t) ==
    /\ th[t].pc = "InvalidRequest"
    /\ \E ok \in BOOLEAN :
        Finish(t, Sent(Logged(Entered(th[t], "InvalidRequest"), "error:invalid"),
                       Admin, "invalid", 0, ok),
               OutcomeOf(ok))
    /\ UNCHANGED <<store, timeout_count, alertInterval, prev, netHandled,
                   netAlerts, netSendFailed, crashed>>

\* Line 257, self.timeout_count += 1: the load of the attribute ...
NetRead(t) ==
    /\ th[t].pc = "NetworkTransient"
    /\ th' = [th EXCEPT ![t] =
                [Entered(@, "NetworkTransient") EXCEPT !.pc = "net_write",
                                                       !.tmp = timeout_count]]
    /\ UNCHANGED <<store, timeout_count, alertInterval, prev, netHandled,
                   netAlerts, netSendFailed, crashed>>

\* ... and the store of the sum; then the log record of lines 258-260.
NetWrite(t) ==
    /\ th[t].pc = "net_write"
    /\ timeout_count' = th[t].tmp + 1
    /\ th' = [th EXCEPT ![t] =
                [Logged(@, "error:network") EXCEPT !.pc = "net_reply", !.tmp = 0]]
    /\ UNCHANGED <<store, alertInterval, prev, netHandled, netAlerts,
                   netSendFailed, crashed>>

\* Lines 261-264: the notice to the conversation the update came from.
NetReply(t) ==
    /\ th[t].pc = "net_reply"
    /\ \/ /\ th[t].upd # "msg"
          /\ th' = [th EXCEPT ![t] = [@ EXCEPT !.pc = "net_alert"]]
          /\ UNCHANGED <<netHandled, netSendFailed>>
       \/ /\ th[t].upd = "msg"
          /\ th' = [th EXCEPT ![t] =
                      [Sent(@, th[t].chat, "dropped", 0, TRUE) EXCEPT !.pc = "net_alert"]]
          /\ UNCHANGED <<netHandled, netSendFailed>>
       \/ /\ th[t].upd = "msg"
          /\ Finish(t, Sent(th[t], th[t].chat, "dropped", 0, FALSE), "raised")
          /\ netHandled' = netHandled + 1
          /\ netSendFailed' = TRUE
    /\ UNCHANGED <<store, timeout_count, alertInterval, prev, netAlerts, crashed>>

\* Lines 266-273: the periodic alert to the first admin.
NetAlert(t) ==
    /\ th[t].pc = "net_alert"
    /\ LET r == [th[t] EXCEPT !.checked = TRUE, !.tmp = timeout_count]
       IN  \/ /\ ~AlertDue(timeout_count, alertInterval)
              /\ Finish(t, r, OutcomeOf(~ZeroDivision(alertInterval)))
              /\ UNCHANGED <<netAlerts, netSendFailed>>
           \/ /\ AlertDue(timeout_count, alertInterval)
              /\ Finish(t, Sent(r, Admin, "netalert", timeout_count, TRUE), "ok")
              /\ netAlerts' = netAlerts + 1
              /\ UNCHANGED netSendFailed
           \/ /\ AlertDue(timeout_count, alertInterval)
              /\ Finish(t, Sent(r, Admin, "netalert", timeout_count, FALSE), "raised")
              /\ netSendFailed' = TRUE
              /\ UNCHANGED netAlerts
    /\ netHandled' = netHandled + 1
    /\ UNCHANGED <<store, timeout_count, alertInterval, prev, crashed>>

\* Lines 275-278: the identifiers, and the list the loop runs over.
MigStart(t) ==
    /\ th[t].pc = "ConversationMigrated"
    /\ \/ /\ th[t].upd # "msg"      \* update.message.chat_id: AttributeError
          /\ Finish(t, Entered(th[t], "ConversationMigrated"), "raised")
       \/ /\ th[t].upd = "msg"
          /\ th' = [th EXCEPT ![t] =
                      [Entered(@, "ConversationMigrated") EXCEPT
                                !.pc = "mig_loop",
                                !.orig = FindByMaster(store, old_master(th[t])),
                                !.links = FindByMaster(store, old_master(th[t])),
                                !.count = 0]]
    /\ UNCHANGED <<store, timeout_count, alertInterval, prev, netHandled,
                   netAlerts, netSendFailed, crashed>>

\* Line 280: the next slave chat of the list loses its row.
MigRemove(t) ==
    /\ th[t].pc = "mig_loop"
    /\ \E i \in th[t].links :
        /\ store' = remove_chat_assoc(store, i)
        /\ th' = [th EXCEPT ![t] =
                    [@ EXCEPT !.pc = "mig_add", !.cur = i, !.links = @ \ {i}]]
    /\ UNCHANGED <<timeout_count, alertInterval, prev, netHandled, netAlerts,
                   netSendFailed, crashed>>

\* Lines 281-282: it is bound to the new master, and counted.
MigAddReplacing(t) ==
    /\ th[t].pc = "mig_add"
    /\ store' = add_chat_assoc({r \in store : r.master # new_master(th[t])},
                               new_master(th[t]), th[t].cur)
    /\ th' = [th EXCEPT ![t] =
                [@ EXCEPT !.pc = "mig_loop", !.cur = NoSlave,
                          !.count = NextCount(@)]]
    /\ UNCHANGED <<timeout_count, alertInterval, prev, netHandled, netAlerts,
                   netSendFailed, crashed>>

MigAdd(t) ==
    /\ th[t].pc = "mig_add"
    /\ \/ /\ ConstraintViolation(store, new_master(th[t]), th[t].cur)
          /\ store' = store
          /\ Finish(t, th[t], "raised")
       \/ /\ ~ConstraintViolation(store, new_master(th[t]), th[t].cur)
          /\ store' = add_chat_assoc(store, new_master(th[t]), th[t].cur)
          /\ th' = [th EXCEPT ![t] =
                      [@ EXCEPT !.pc = "mig_loop", !.cur = NoSlave,
                                !.count = NextCount(@)]]
    /\ UNCHANGED <<timeout_count, alertInterval, prev, netHandled, netAlerts,
                   netSendFailed, crashed>>

\* Lines 283-284: the confirmation to the new chat, after the loop.
MigSend(t) ==
    /\ th[t].pc = "mig_loop"
    /\ th[t].links = {}
    /\ \E ok \in BOOLEAN :
        Finish(t, Sent(th[t], confirm_target(th[t]), "migrated", th[t].count, ok),
               OutcomeOf(ok))
    /\ UNCHANGED <<store, timeout_count, alertInterval, prev, netHandled,
                   netAlerts, netSendFailed, crashed>>

\* Lines 285-295: the catch-all.
HandleUnclassified(t) ==
    /\ th[t].pc = "Unclassified"
    /\ \E ok \in BOOLEAN :
        LET tried == Sent(Entered(th[t], "Unclassified"), Admin, "unclassified", 0, ok)
            caught == IF ok THEN tried ELSE Logged(tried, "error:sendfailed")
        IN  Finish(t, Logged(caught, "error:unhandled"), UnclassifiedOutcome(ok))
    /\ UNCHANGED <<store, timeout_count, alertInterval, prev, netHandled,
                   netAlerts, netSendFailed, crashed>>

\* Control is back with the library.  A migration whose loop ran to its end
\* while nothing else ran is remembered until something else happens.
Return(t) ==
    /\ th[t].pc = "done"
    /\ th' = [th EXCEPT ![t] = Idle]
    /\ prev' = IF /\ th[t].cat = "ConversationMigrated"
                  /\ th[t].sends # <<>>
                  /\ \A u \in Threads \ {t} : th[u].pc = "idle"
               THEN [valid |-> TRUE, chat |-> th[t].chat, new |-> th[t].new,
                     orig |-> th[t].orig, count |-> th[t].count,
                     said |-> th[t].sends[1].n]
               ELSE NoMigration
    /\ crashed' = NoMigration
    /\ UNCHANGED <<store, timeout_count, alertInterval, netHandled, netAlerts,
                   netSendFailed>>

\* chat_binding.get_chat_from_db(channel_id, chat_id): the chat, or None.
get_chat_from_db(known, channel_id, chat_id) ==
    chat_id_to_str(channel_id, chat_id) \in known

\* Lines 176-185, one line of the answer: the full name of a resolved chat,
\* the placeholder with the channel's emoji and name and the raw chat
\* identifier otherwise.  coordinator.slaves[channel_id] is a KeyError if no
\* such channel is registered.
InfoLine(slaves, known, i) ==
    LET id == chat_id_str_to_id(i)
    IN  IF get_chat_from_db(known, id.channel_id, id.chat_id)
        THEN [slave |-> i, form |-> "label", chat_id |-> 0]
        ELSE IF id.channel_id \in slaves
        THEN [slave |-> i, form |-> "placeholder", chat_id |-> id.chat_id]
        ELSE [slave |-> i, form |-> "KeyError", chat_id |-> 0]

\* Lines 153-191, the /info command on thread t: in the private chat with
\* the bot it lists the registered channels (162-168); in a group it reads
\* the rows of the group (170) and answers with one line per row (172-185)
\* or with "not linked" (187-189).  An exception in the loop leaves the
\* handler before reply_text (191); reply_text can raise as well.
Info(t) ==
    /\ th[t].pc = "idle"
    /\ \E private \in BOOLEAN, chat \in ChatIds, slaves \in SUBSET SlaveChannels,
          known \in SUBSET SlaveRefs, ok \in BOOLEAN :
        LET r == [Idle EXCEPT !.cat = "Info", !.chat = chat, !.slaves = slaves,
                              !.upd = IF private THEN "private" ELSE "msg"]
            links == FindByMaster(store, chat_id_to_str(MasterChannel, chat))
            lines == {InfoLine(slaves, known, i) : i \in links}
            failed == \E l \in lines : l.form = "KeyError"
        IN  IF private
            THEN Finish(t, Sent(r, chat, "about", Cardinality(slaves), ok),
                        OutcomeOf(ok))
            ELSE IF links = {}
            THEN Finish(t, Sent(r, chat, "notlinked", 0, ok), OutcomeOf(ok))
            ELSE IF failed
            THEN Finish(t, [r EXCEPT !.orig = links, !.known = known], "raised")
            ELSE Finish(t, Sent([r EXCEPT !.orig = links, !.known = known,
                                          !.entries = lines],
                                chat, "info", Cardinality(lines), ok),
                        OutcomeOf(ok))
    /\ UNCHANGED <<store, timeout_count, alertInterval, prev, netHandled,
                   netAlerts, netSendFailed, crashed>>

\* The link command binds an unbound slave chat to a master conversation
\* (AlreadyBound otherwise, and nothing changes).
Link ==
    /\ \E m \in MasterRefs, s \in SlaveRefs :
        /\ FindBySlave(store, s) = {}
        /\ store' = add_chat_assoc(store, m, s)
    /\ prev' = NoMigration
    /\ crashed' = NoMigration
    /\ UNCHANGED <<timeout_count, alertInterval, th, netHandled, netAlerts,
                   netSendFailed>>

\* The process dies and is started again: the rows stay, the rest is new.
Crash ==
    /\ \/ \E t \in Threads :
             /\ th[t].pc \in {"mig_loop", "mig_add"}
             /\ crashed' = [valid |-> TRUE, chat |-> th[t].chat, new |-> th[t].new,
                            orig |-> th[t].orig, count |-> 0, said |-> 0]
       \/ /\ \A t \in Threads : th[t].pc \notin {"mig_loop", "mig_add"}
          /\ crashed' = NoMigration
    /\ th' = [t \in Threads |-> Idle]
    /\ timeout_count' = 0
    /\ prev' = NoMigration
    /\ netHandled' = 0
    /\ netAlerts' = 0
    /\ netSendFailed' = FALSE
    /\ UNCHANGED <<store, alertInterval>>

Step(t) ==
    \/ HandleConflict(t)
    \/ HandleUnauthorized(t)
    \/ HandleBadRequest(t)
    \/ NetRead(t)
    \/ NetWrite(t)
    \/ NetReply(t)
    \/ NetAlert(t)
    \/ MigStart(t)
    \/ MigRemove(t)
    \/ MigAdd(t)
    \/ MigSend(t)
    \/ HandleUnclassified(t)
    \/ Return(t)

\* ---------------------------------------------------------- specifications
\* Every kind of failure, one invocation at a time, and no command between
\* the steps of an invocation.
Init == InitWith(0 .. MixedInterval)

Next ==
    \/ \E t \in Threads : (Serial /\ Begin(t, ErrClasses, MixedNetErrors)) \/ Step(t)
    \/ Serial /\ Link
    \/ Crash

Spec == Init /\ [][Next]_vars

\* Network errors only, one invocation at a time.
NetClasses == {"TimedOut", "NetworkError"}

NetInit == InitWith(0 .. MaxInterval)

NetNext ==
    \/ \E t \in Threads :
          \/ Serial /\ Begin(t, NetClasses, MaxNetErrors)
          \/ NetRead(t) \/ NetWrite(t) \/ NetReply(t) \/ NetAlert(t) \/ Return(t)
    \/ Crash

NetSpec == NetInit /\ [][NetNext]_vars

\* Network errors on both threads at once.
NetConcNext ==
    \E t \in Threads :
        \/ Begin(t, NetClasses, MixedNetErrors)
        \/ NetRead(t) \/ NetWrite(t) \/ NetReply(t) \/ NetAlert(t) \/ Return(t)

NetConcSpec == Init /\ [][NetConcNext]_vars

\* Migrations on both threads at once, and the link command between their
\* steps.  The other branches of the callback touch neither the store nor
\* the locals of a migration.
MigConcInit == InitWith({0})

MigConcNext ==
    \/ \E t \in Threads :
          \/ Begin(t, {"ChatMigrated"}, 0)
          \/ MigStart(t) \/ MigRemove(t) \/ MigAdd(t) \/ MigSend(t) \/ Return(t)
    \/ Link

MigConcSpec == MigConcInit /\ [][MigConcNext]_vars

\* The info command, one at a time, between link commands.
InfoNext ==
    \/ \E t \in Threads : (Serial /\ Info(t)) \/ Return(t)
    \/ Link

InfoSpec == Init /\ [][InfoNext]_vars

\* ------------------------------------------------------------------ claims
Done(t) == th[t].pc = "done"

\* The invocation on t was a migration whose loop ran to its end.
Migrated(t) ==
    Done(t) /\ th[t].cat = "ConversationMigrated" /\ th[t].sends # <<>>

Quiet == \A t \in Threads : th[t].pc \in {"idle", "done"}

HasSend(r, kind, ok) ==
    \E i \in 1 .. Len(r.sends) : r.sends[i].kind = kind /\ r.sends[i].ok = ok

\* C1: once the callback has handled a migration old -> new, every slave chat
\* that was bound to old is bound to new, and nothing is bound to old.
MigrationMovesAll ==
    \A t \in Threads :
        Migrated(t) =>
            /\ \A s \in th[t].orig : FindBySlave(store, s) = {new_master(th[t])}
            /\ FindByMaster(store, old_master(th[t])) = {}

MigrationMovesAllWitness ==
    \E t \in Threads :
        /\ Migrated(t)
        /\ th[t].outcome = "ok"
        /\ Cardinality(th[t].orig) = 2
        /\ FindByMaster(store, new_master(th[t])) = th[t].orig

\* C2: the same migration handled twice in a row: the first moved and
\* reported the N chats bound to old, the second counts 0, still sends its
\* confirmation and raises only if that send does, and the N chats are bound
\* to new.
MigrationTwice ==
    \A t \in Threads :
        Migrated(t) /\ SameMigration(prev, th[t].chat, th[t].new) =>
            /\ prev.count = Cardinality(prev.orig)
            /\ prev.said = Cardinality(prev.orig)
            /\ th[t].count = 0
            /\ Len(th[t].sends) = 1
            /\ th[t].sends[1].to = th[t].new
            /\ th[t].sends[1].kind = "migrated"
            /\ th[t].sends[1].n = 0
            /\ th[t].outcome = OutcomeOf(th[t].sends[1].ok)
            /\ \A s \in prev.orig : FindBySlave(store, s) = {new_master(th[t])}

MigrationTwiceWitness ==
    \E t \in Threads :
        /\ Migrated(t)
        /\ SameMigration(prev, th[t].chat, th[t].new)
        /\ Cardinality(prev.orig) = 2
        /\ th[t].outcome = "ok"

\* C3: in every state, also between the steps of migrations that run at the
\* same time, no slave chat is in two associations.
SlaveBoundOnce == UniqueSlaves(store)

SlaveBoundOnceWitness ==
    \E t, u \in Threads :
        /\ t # u
        /\ th[t].pc = "mig_add"
        /\ th[u].pc = "mig_add"
        /\ th[t].count = 1
        /\ store # {}

\* C4: while a migration runs, a lookup finds every slave chat the migration
\* found bound to the old master bound to the old or to the new master, never
\* unbound.  (A lookup is one read of the store: it sees the store of the
\* state it runs in.)
NoMissingRow ==
    \A t \in Threads :
        th[t].pc \in {"mig_loop", "mig_add"} =>
            \A s \in th[t].orig :
                /\ FindBySlave(store, s) # {}
                /\ FindBySlave(store, s) \subseteq {old_master(th[t]), new_master(th[t])}

\* C5: after a crash during a migration old -> new, every slave chat that was
\* bound to old is bound to old or to new in the rows that persist, and the
\* same migration delivered again after the restart leaves all of them bound
\* to new.
CrashLosesNothing ==
    /\ crashed.valid /\ Serial =>
          \A s \in crashed.orig :
              /\ FindBySlave(store, s) # {}
              /\ FindBySlave(store, s) \subseteq
                     {chat_id_to_str(MasterChannel, crashed.chat),
                      chat_id_to_str(MasterChannel, crashed.new)}
    /\ \A t \in Threads :
          Migrated(t) /\ SameMigration(crashed, th[t].chat, th[t].new) =>
              \A s \in crashed.orig : FindBySlave(store, s) = {new_master(th[t])}

\* C6: the callback returns normally for every category and every update,
\* whatever becomes of the sends it attempts.
ErrorAlwaysReturns == \A t \in Threads : Done(t) => th[t].outcome = "ok"

\* C7: with a positive interval k and no failed send, n network errors since
\* startup have caused n \div k alerts, and the error handled as the n-th
\* caused one iff k divides n.
AlertEveryKth ==
    alertInterval > 0 /\ ~netSendFailed /\ Quiet =>
        /\ netAlerts = netHandled \div alertInterval
        /\ \A t \in Threads :
              Done(t) =>
                  (HasSend(th[t], "netalert", TRUE) <=>
                       netHandled % alertInterval = 0)

AlertEveryKthWitness ==
    /\ alertInterval = 5
    /\ netHandled = 5
    /\ netAlerts = 1
    /\ ~netSendFailed
    /\ \E t \in Threads : Done(t) /\ HasSend(th[t], "netalert", TRUE)

\* C8: when the notice to the conversation of a network error fails, the
\* callback has counted the error, still makes the periodic alert check, and
\* raises nothing on account of the notice.
DroppedNoticeSwallowed ==
    \A t \in Threads :
        Done(t) /\ HasSend(th[t], "dropped", FALSE) =>
            /\ th[t].logs = <<"error:network">>
            /\ th[t].checked
            /\ th[t].outcome = "ok" \/ HasSend(th[t], "netalert", FALSE)

\* C9: network errors handled at the same time lose no increment: once n
\* handlings are over the counter is n, and no two of them tested the alert
\* condition on the same value of the counter.
NoLostIncrement ==
    /\ Quiet => timeout_count = netHandled
    /\ \A t, u \in Threads :
          t # u /\ Done(t) /\ Done(u) /\ th[t].checked /\ th[u].checked =>
              th[t].tmp # th[u].tmp

\* C10: the catch-all branch attempts one alert to the first admin; a failure
\* of that send is caught and logged; the callback returns normally and logs
\* the error whether or not the send went through.
UnclassifiedNeverRaises ==
    \A t \in Threads :
        Done(t) /\ th[t].cat = "Unclassified" =>
            /\ th[t].outcome = "ok"
            /\ Len(th[t].sends) = 1
            /\ th[t].sends[1].to = Admin
            /\ th[t].sends[1].kind = "unclassified"
            /\ th[t].logs =
                   IF th[t].sends[1].ok THEN <<"error:unhandled">>
                   ELSE <<"error:sendfailed", "error:unhandled">>

UnclassifiedNeverRaisesWitness ==
    \E t \in Threads :
        /\ Done(t)
        /\ th[t].cat = "Unclassified"
        /\ ~th[t].sends[1].ok
        /\ th[t].outcome = "ok"

\* C11: with network_error_prompt_interval = 0 no network alert is sent or
\* attempted however many network errors are handled, the check of line 267
\* raises nothing (an invocation that reaches it returns), and every
\* handling still adds one to timeout_count.
ZeroIntervalNoAlert ==
    alertInterval = 0 =>
        /\ netAlerts = 0
        /\ \A t \in Threads :
              Done(t) /\ th[t].cat = "NetworkTransient" =>
                  /\ ~HasSend(th[t], "netalert", TRUE)
                  /\ ~HasSend(th[t], "netalert", FALSE)
                  /\ th[t].checked => th[t].outcome = "ok"
        /\ Quiet => timeout_count = netHandled

ZeroIntervalNoAlertWitness ==
    /\ alertInterval = 0
    /\ netHandled = MaxNetErrors
    /\ timeout_count = MaxNetErrors
    /\ \E t \in Threads :
          Done(t) /\ th[t].checked /\ th[t].outcome = "ok"

\* C12: no step of an invocation that handles a failure of a category other
\* than ConversationMigrated changes the association rows.
OnlyMigrationWrites ==
    [][\A t \in Threads :
          (th[t].cat \notin {"none", "ConversationMigrated"} /\ th'[t] # th[t])
              => store' = store]_vars

OnlyMigrationWritesWitness ==
    \E t \in Threads :
        /\ Done(t)
        /\ th[t].cat = "InvalidRequest"
        /\ th[t].upd = "msg"
        /\ Cardinality(FindByMaster(store, old_master(th[t]))) = 2

\* The categories whose trigger a raw failure meets: the conflict text, lost
\* permission, a malformed request, a timeout or connectivity failure, a
\* migrated conversation.
Triggers(r) ==
    {c \in {"PollingConflict", "Unauthorized", "InvalidRequest",
            "NetworkTransient", "ConversationMigrated"} :
        \/ c = "PollingConflict" /\ r.conflict
        \/ c = "Unauthorized" /\ r.cls = "Unauthorized"
        \/ c = "InvalidRequest" /\ r.cls = "BadRequest"
        \/ c = "NetworkTransient" /\ r.cls \in {"TimedOut", "NetworkError"}
        \/ c = "ConversationMigrated" /\ r.cls = "ChatMigrated"}

\* What the recovery of a category sends and logs.
SendKinds(c) ==
    CASE c = "PollingConflict" -> {"conflict"}
      [] c = "Unauthorized" -> {}
      [] c = "InvalidRequest" -> {"invalid"}
      [] c = "NetworkTransient" -> {"dropped", "netalert"}
      [] c = "ConversationMigrated" -> {"migrated"}
      [] OTHER -> {"unclassified"}

LogKinds(c) ==
    CASE c = "PollingConflict" -> {"critical:conflict"}
      [] c = "Unauthorized" -> {"error:unauthorised"}
      [] c = "InvalidRequest" -> {"error:invalid"}
      [] c = "NetworkTransient" -> {"error:network"}
      [] c = "ConversationMigrated" -> {}
      [] OTHER -> {"error:sendfailed", "error:unhandled"}

\* C13: every invocation, whatever the failure, enters exactly one branch:
\* one whose trigger the failure meets, the catch-all if it meets none; and
\* all it sends and logs is that branch's.
OneBranchRan ==
    \A t \in Threads :
        /\ Len(th[t].ran) <= 1
        /\ Done(t) =>
              /\ Len(th[t].ran) = 1
              /\ Triggers(th[t]) = {} => th[t].ran[1] = "Unclassified"
              /\ Triggers(th[t]) # {} => th[t].ran[1] \in Triggers(th[t])
              /\ \A i \in 1 .. Len(th[t].sends) :
                    th[t].sends[i].kind \in SendKinds(th[t].ran[1])
              /\ \A i \in 1 .. Len(th[t].logs) :
                    th[t].logs[i] \in LogKinds(th[t].ran[1])

OneBranchRanWitness ==
    \E t \in Threads :
        /\ Done(t)
        /\ Triggers(th[t]) = {}
        /\ th[t].ran = <<"Unclassified">>
        /\ th[t].logs = <<"error:sendfailed", "error:unhandled">>

\* C14, as the code has it: a TimedOut failure is handled as NetworkTransient
\* and an Unauthorized failure as Unauthorized, whatever the conversation,
\* unless the text of the Unauthorized failure holds the conflict text: the
\* text test of line 241 runs first and the failure is then handled as
\* PollingConflict.
FlavourThenText ==
    \A t \in Threads :
        Done(t) =>
            /\ th[t].cls = "TimedOut" => th[t].ran = <<"NetworkTransient">>
            /\ th[t].cls = "Unauthorized" =>
                  th[t].ran = <<IF th[t].conflict THEN "PollingConflict"
                                ELSE "Unauthorized">>

FlavourThenTextWitness ==
    \E t \in Threads :
        /\ Done(t)
        /\ th[t].cls = "Unauthorized"
        /\ th[t].conflict
        /\ th[t].upd = "msg"
        /\ th[t].ran = <<"PollingConflict">>
        /\ th[t].sends # <<>>

\* C14 as stated: TimedOut is always handled as NetworkTransient and
\* Unauthorized always as Unauthorized, whatever the conversation and the
\* text of the failure.
FlavourAlone ==
    \A t \in Threads :
        Done(t) =>
            /\ th[t].cls = "TimedOut" => th[t].ran = <<"NetworkTransient">>
            /\ th[t].cls = "Unauthorized" => th[t].ran = <<"Unauthorized">>

\* C15: the handling of a polling conflict is one alert to the first admin
\* and its log record, nothing else: no other branch, nothing sent to the
\* conversation, timeout_count and the rows as they were; then it is over.
ConflictAlertOnly ==
    [][Crash \/
       \A t \in Threads :
          (th[t].cat = "PollingConflict" /\ th'[t] # th[t]) =>
              /\ timeout_count' = timeout_count
              /\ store' = store
              /\ th'[t].pc \in {"done", "idle"}
              /\ th'[t].pc = "done" =>
                    /\ th'[t].ran = <<"PollingConflict">>
                    /\ th'[t].logs = <<"critical:conflict">>
                    /\ Len(th'[t].sends) = 1
                    /\ th'[t].sends[1].to = Admin
                    /\ th'[t].sends[1].kind = "conflict"
                    /\ th'[t].outcome = OutcomeOf(th'[t].sends[1].ok)]_vars

ConflictAlertOnlyWitness ==
    \E t \in Threads :
        /\ Done(t)
        /\ th[t].cat = "PollingConflict"
        /\ th[t].cls = "NetworkError"
        /\ th[t].upd = "msg"
        /\ th[t].outcome = "ok"
        /\ timeout_count = MixedNetErrors

\* C16: the handling of an Unauthorized failure writes its log record and
\* returns: nothing is sent to the conversation or to an admin, and
\* timeout_count and the rows are as they were.
UnauthorizedLogsOnly ==
    [][Crash \/
       \A t \in Threads :
          (th[t].cat = "Unauthorized" /\ th'[t] # th[t]) =>
              /\ timeout_count' = timeout_count
              /\ store' = store
              /\ th'[t].pc \in {"done", "idle"}
              /\ th'[t].pc = "done" =>
                    /\ th'[t].ran = <<"Unauthorized">>
                    /\ th'[t].logs = <<"error:unauthorised">>
                    /\ th'[t].sends = <<>>
                    /\ th'[t].outcome = "ok"]_vars

UnauthorizedLogsOnlyWitness ==
    \E t \in Threads :
        /\ Done(t)
        /\ th[t].cat = "Unauthorized"
        /\ th[t].upd = "msg"
        /\ FindByMaster(store, old_master(th[t])) # {}
        /\ timeout_count = MixedNetErrors

\* C17: the answer to the info command in a group bound to slave chats has
\* exactly one line per bound slave chat, the name of the chat if it was
\* resolved and the placeholder with its raw identifier if not, and the
\* command fails only if sending the answer does, whether or not the
\* channels of the chats are registered.
InfoListsAll ==
    \A t \in Threads :
        Done(t) /\ th[t].cat = "Info" /\ th[t].orig # {} =>
            /\ th[t].entries =
                  {[slave |-> i,
                    form |-> IF i \in th[t].known THEN "label" ELSE "placeholder",
                    chat_id |-> IF i \in th[t].known THEN 0 ELSE i[2]] :
                   i \in th[t].orig}
            /\ Len(th[t].sends) = 1
            /\ th[t].sends[1].kind = "info"
            /\ th[t].outcome = OutcomeOf(th[t].sends[1].ok)

\* C18: the handling of a migration sends nothing while rows are still to be
\* rewritten, and then exactly one confirmation, to the new identifier,
\* stating as many chats as were bound to the old master when the handling
\* read them, all of them bound to the new master by then.
ConfirmationAfterMoves ==
    \A t \in Threads :
        th[t].cat = "ConversationMigrated" =>
            /\ ~Done(t) => th[t].sends = <<>>
            /\ Done(t) /\ th[t].upd = "msg" =>
                  /\ Len(th[t].sends) = 1
                  /\ th[t].sends[1].to = th[t].new
                  /\ th[t].sends[1].kind = "migrated"
                  /\ th[t].sends[1].n = Cardinality(th[t].orig)
                  /\ \A s \in th[t].orig : FindBySlave(store, s) = {new_master(th[t])}

ConfirmationAfterMovesWitness ==
    \E t \in Threads :
        /\ Migrated(t)
        /\ Cardinality(th[t].orig) = 2
        /\ th[t].sends[1].n = 2
        /\ th[t].sends[1].ok

\* C19: timeout_count is 0 when the process starts and, until the process
\* is started again, never goes down: the step of a network handling that
\* stores its increment raises it by exactly one, and no other step of any
\* invocation changes it.
CounterOnlyCountsUp ==
    /\ timeout_count = 0
    /\ [][Crash \/
          /\ timeout_count' >= timeout_count
          /\ \A t \in Threads :
                th'[t] # th[t] =>
                    IF th[t].pc = "net_write"
                    THEN timeout_count' = timeout_count + 1
                    ELSE timeout_count' = timeout_count]_vars

\* The rows of the chats a migration does not move.
Others(st, r) == {row \in st : row.slave \notin r.orig}

\* The rows as they were when the migration read them: the chats it moves
\* under the old master, the others as they are.
Before(st, r) == Others(st, r) \cup {Row(old_master(r), i) : i \in r.orig}

\* C20: no step of a migration changes a row of a chat that was not bound
\* to the old master, and when the migration is complete the rows are the
\* rows from before with the old master replaced by the new one: the same
\* slave chats are bound, in as many rows.
MigrationFrame ==
    [][Crash \/
       \A t \in Threads :
          (th'[t].cat = "ConversationMigrated" /\ th'[t] # th[t]) =>
              /\ Others(store', th'[t]) = Others(store, th'[t])
              /\ th[t].pc = "ConversationMigrated" =>
                    /\ store' = store
                    /\ th'[t].pc = "mig_loop" => Before(store', th'[t]) = store
              /\ (th'[t].pc = "done" /\ th'[t].sends # <<>>) =>
                    /\ store' = Others(store', th'[t]) \cup
                                 {Row(new_master(th'[t]), i) : i \in th'[t].orig}
                    /\ {row.slave : row \in store'} =
                       {row.slave : row \in Before(store', th'[t])}
                    /\ Cardinality(store') = Cardinality(Before(store', th'[t]))]_vars

MigrationFrameWitness ==
    \E t \in Threads :
        /\ Migrated(t)
        /\ Cardinality(th[t].orig) = 1
        /\ Cardinality(FindByMaster(store, new_master(th[t]))) = 2
        /\ Cardinality(store) = 2

====
